---- MODULE Spec2Model ----
(***************************************************************************)
(* Model of the authentication service in src/main.py: register, login,    *)
(* google_auth (federated login), forgot_password and reset_password over  *)
(* the two collections "authuser" and "passwordreset".                     *)
(*                                                                         *)
(* Every handler is cut at its store calls: one action per store step, so  *)
(* that concurrent requests interleave between the steps as they do on the *)
(* server.  Spec is the server whose requests overlap; SeqSpec is the      *)
(* server that starts a request only when no other request is in flight.   *)
(*                                                                         *)
(* The store handle `db` is taken to be configured (db is not None); the   *)
(* `if db else None` fall-backs of the handlers are not modelled.          *)
(***************************************************************************)
EXTENDS Integers, Sequences, FiniteSets, TLC

VARIABLES
    users,        \* collection "authuser": sequence of account documents
    resets,       \* collection "passwordreset": sequence of token documents
    now,          \* the UTC clock, in hours
    pc,           \* pc[p]: the store step request p is about to run
    call,         \* call[p]: payload and locals of request p
    last,         \* the response of the step just taken, NoResp if it returned none
    returnedIds,  \* history: user_id values returned by register
    provisioned,  \* history: ids of accounts created by google_auth
    pwResetIds,   \* history: ids of accounts whose password_hash was overwritten
    okResets,     \* history: okResets[i] = number of successful reset_password
                  \*          calls that consumed token document i
    started,      \* number of requests the server has accepted so far
    serial,       \* deployment: TRUE when the server handles one request at a time
    faults        \* history: the store calls that have failed

vars == <<users, resets, now, pc, call, last, returnedIds, provisioned,
          pwResetIds, okResets, started, serial, faults>>

----------------------------------------------------------------------------
(* Bounds of the model *)

MaxCalls == 3
MaxTime == 2

Procs == {"p1", "p2"}

(* timedelta(hours=1): the clock unit of the model is one hour *)
TTL_HOURS == 1

----------------------------------------------------------------------------
(* Request inputs *)

Email(local, domain) == [local |-> local, domain |-> domain]

RawEmails == {Email("Ann", "x.io"), Email("ann", "x.io"), Email("bob", "x.io")}

NoEmail == Email("", "")

(* str.lower() on the strings that occur in the model *)
LowerStr(s) == CASE s = "Ann" -> "ann"
                 [] OTHER -> s

Lower(e) == Email(LowerStr(e.local), LowerStr(e.domain))

(* payload.email.lower() *)
NormalizeEmail(e) == Lower(e)

Passwords == {"pw1", "pw2"}

(* os.urandom(16).hex(): 128 random bits, outside what a caller supplies *)
RandomHex == {"hex1"}

(* faulty variant: a placeholder a caller can supply *)
PlaceholderGuessable == Passwords

PlaceholderSecrets == RandomHex

(* bcrypt draws a salt and keeps it in the hash, where verify reads it;   *)
(* no handler looks at it otherwise                                        *)
Salts == {"s1", "s2"}

RegisterNames == {"Ann"}

----------------------------------------------------------------------------
(* pwd_context: bcrypt hash and verify *)

Digest(salt, plaintext) == <<salt, plaintext>>

Hash(plaintext, salt) ==
    [scheme |-> "bcrypt", salt |-> salt, digest |-> Digest(salt, plaintext)]

Verify(plaintext, h) ==
    h.scheme = "bcrypt" /\ Digest(h.salt, plaintext) = h.digest

----------------------------------------------------------------------------
(* Documents *)

AuthUser(id, name, email, password_hash, is_active) ==
    [id |-> id, name |-> name, email |-> email,
     password_hash |-> password_hash, is_active |-> is_active]

PasswordReset(id, email, token, expires_at, used) ==
    [id |-> id, email |-> email, token |-> token,
     expires_at |-> expires_at, used |-> used]

(* An account already in the store when the service starts, deactivated by *)
(* an administrator outside the service.                                   *)
Dormant == AuthUser(1, "Bob", Email("bob", "x.io"), Hash("pw1", "s1"), FALSE)

Min(S) == CHOOSE x \in S : \A y \in S : x <= y

(* faulty variant: the lookup misses every account *)
FindNoUser(email) == 0

(* faulty variant: find_one without the email filter *)
FindAnyUser(email) == IF users = << >> THEN 0 ELSE 1

(* db[coll].find_one(filter): the first matching document, 0 if none *)
FindUser(email) ==
    LET hits == {i \in DOMAIN users : users[i].email = email}
    IN  IF hits = {} THEN 0 ELSE Min(hits)

(* faulty variant: the token looked up without the email *)
FindTokenAnyEmail(email, token) ==
    LET hits == {i \in DOMAIN resets : resets[i].token = token}
    IN  IF hits = {} THEN 0 ELSE Min(hits)

(* find_one({"email": email, "token": token}) *)
FindToken(email, token) ==
    LET hits == {i \in DOMAIN resets :
                    resets[i].email = email /\ resets[i].token = token}
    IN  IF hits = {} THEN 0 ELSE Min(hits)

----------------------------------------------------------------------------
(* Requests in flight and responses *)

NoCall == [op |-> "none", email |-> NoEmail, secret |-> "", token |-> 0,
           name |-> "", uid |-> 0, tid |-> 0]

NoResp == [op |-> "none", status |-> 0, detail |-> "", req_email |-> NoEmail,
           req_secret |-> "", req_token |-> 0, user_id |-> 0, token |-> 0,
           expires_in |-> 0, session |-> ""]

Resp(op, status, detail, c) ==
    [op |-> op, status |-> status, detail |-> detail, req_email |-> c.email,
     req_secret |-> c.secret, req_token |-> c.token, user_id |-> 0,
     token |-> 0, expires_in |-> 0, session |-> ""]

Quiescent == \A p \in Procs : pc[p] = "idle"

(* The response of the last step has been handed to its client *)
Delivered == last = NoResp

(* A request may start when the deployment lets it *)
CanStart(p) ==
    /\ Delivered
    /\ pc[p] = "idle"
    /\ serial => Quiescent
    /\ started < MaxCalls

(* Request p is at store step `label` *)
At(p, label) == Delivered /\ pc[p] = label

Return(p, resp) ==
    /\ pc' = [pc EXCEPT ![p] = "idle"]
    /\ call' = [call EXCEPT ![p] = NoCall]
    /\ last' = resp

Goto(p, label, c) ==
    /\ pc' = [pc EXCEPT ![p] = label]
    /\ call' = [call EXCEPT ![p] = c]
    /\ last' = NoResp

Init ==
    /\ serial \in BOOLEAN
    /\ users \in {<< >>, <<Dormant>>}
    /\ resets = << >>
    /\ now = 0
    /\ pc = [p \in Procs |-> "idle"]
    /\ call = [p \in Procs |-> NoCall]
    /\ last = NoResp
    /\ returnedIds = {}
    /\ provisioned = {}
    /\ pwResetIds = {}
    /\ okResets = << >>
    /\ started = 0
    /\ faults = {}

----------------------------------------------------------------------------
(* create_document("authuser", doc): the account store's insert.  The      *)
(* store enforces the uniqueness constraint on email: an insert of an      *)
(* email already present raises DuplicateKey and writes nothing.           *)

(* faulty variant: a store without the uniqueness constraint *)
NoDuplicateKey(email) == FALSE

DuplicateKey(email) == \E i \in DOMAIN users : users[i].email = email

InsertedUsers(name, email, password_hash) ==
    Append(users, AuthUser(Len(users) + 1, name, email, password_hash, TRUE))

----------------------------------------------------------------------------
(* POST /auth/register *)

RegisterFind(p) ==
    \E name \in RegisterNames, email \in RawEmails, password \in Passwords :
        LET e == NormalizeEmail(email)
            c == [NoCall EXCEPT !.op = "register", !.email = e,
                                !.secret = password, !.name = name]
        IN  /\ CanStart(p)
            /\ started' = started + 1
            /\ IF FindUser(e) # 0
               THEN Return(p, Resp("register", 409, "Email sudah terdaftar", c))
               ELSE Goto(p, "reg_insert", c)
            /\ UNCHANGED <<users, resets, now, returnedIds, provisioned,
                           pwResetIds, okResets, serial, faults>>

RegisterInsert(p) ==
    \E salt \in Salts :
        LET c == call[p]
            id == Len(users) + 1
        IN  /\ At(p, "reg_insert")
            /\ IF DuplicateKey(c.email)
               THEN /\ Return(p, Resp("register", 500, "Internal Server Error", c))
                    /\ UNCHANGED <<users, returnedIds>>
               ELSE /\ users' = InsertedUsers(c.name, c.email, Hash(c.secret, salt))
                    /\ returnedIds' = returnedIds \cup {id}
                    /\ Return(p, [Resp("register", 200, "Registrasi berhasil", c)
                                     EXCEPT !.user_id = id])
            /\ UNCHANGED <<resets, now, provisioned, pwResetIds, okResets, started,
                           serial, faults>>

----------------------------------------------------------------------------
(* POST /auth/login *)

(* faulty variant: the is_active gate ahead of the password check *)
LoginGateFirst(email, password) ==
    LET e == NormalizeEmail(email)
        c == [NoCall EXCEPT !.op = "login", !.email = e, !.secret = password]
        i == FindUser(e)
    IN  IF i = 0
        THEN Resp("login", 401, "Email atau kata sandi salah", c)
        ELSE IF ~users[i].is_active
        THEN Resp("login", 403, "Akun dinonaktifkan", c)
        ELSE IF ~Verify(password, users[i].password_hash)
        THEN Resp("login", 401, "Email atau kata sandi salah", c)
        ELSE [Resp("login", 200, "Login berhasil", c)
                 EXCEPT !.user_id = users[i].id, !.session = "demo-token"]

LoginResponse(email, password) ==
    LET e == NormalizeEmail(email)
        c == [NoCall EXCEPT !.op = "login", !.email = e, !.secret = password]
        i == FindUser(e)
    IN  IF i = 0
        THEN Resp("login", 401, "Email atau kata sandi salah", c)
        ELSE IF ~Verify(password, users[i].password_hash)
        THEN Resp("login", 401, "Email atau kata sandi salah", c)
        ELSE IF ~users[i].is_active
        THEN Resp("login", 403, "Akun dinonaktifkan", c)
        ELSE [Resp("login", 200, "Login berhasil", c)
                 EXCEPT !.user_id = users[i].id, !.session = "demo-token"]

Login(p) ==
    \E email \in RawEmails, password \in Passwords :
        /\ CanStart(p)
            /\ started' = started + 1
        /\ Return(p, LoginResponse(email, password))
        /\ UNCHANGED <<users, resets, now, returnedIds, provisioned,
                       pwResetIds, okResets, serial, faults>>

----------------------------------------------------------------------------
(* POST /auth/google *)

(* What requests.get(tokeninfo, timeout=10) can produce: no answer within  *)
(* the timeout (an exception), a non-200 answer, or a 200 answer whose     *)
(* JSON may lack the email and the name.                                   *)
OracleOutcomes ==
    {[status |-> "timeout", email |-> NoEmail, name |-> ""],
     [status |-> "non200", email |-> NoEmail, name |-> ""]}
    \cup [status : {"ok"}, email : RawEmails \cup {NoEmail}, name : {"", "Gina"}]

(* info.get("name") or f"Pengguna {email.split('@')[0]}" *)
DisplayName(name, email) ==
    IF name # "" THEN name ELSE "Pengguna " \o email.local

(* faulty variant: no is_active gate on the Google path *)
GoogleResponseUngated(c, i) ==
    [Resp("google", 200, "Login Google berhasil", c)
        EXCEPT !.user_id = users[i].id, !.session = "demo-token"]

GoogleResponse(c, i) ==
    IF ~users[i].is_active
    THEN Resp("google", 403, "Akun dinonaktifkan", c)
    ELSE [Resp("google", 200, "Login Google berhasil", c)
             EXCEPT !.user_id = users[i].id, !.session = "demo-token"]

(* The handler's first step for one answer of the oracle *)
GoogleAuthOn(p, info) ==
    LET e == IF info.email = NoEmail THEN NoEmail ELSE NormalizeEmail(info.email)
        c == [NoCall EXCEPT !.op = "google", !.email = e,
                            !.name = DisplayName(info.name, e)]
        i == FindUser(e)
    IN  /\ CanStart(p)
        /\ started' = started + 1
        /\ CASE info.status = "timeout" ->
                  Return(p, Resp("google", 500, "Gagal memproses login Google", c))
             [] info.status = "non200" ->
                  Return(p, Resp("google", 401, "Token Google tidak valid", c))
             [] info.status = "ok" /\ e = NoEmail ->
                  Return(p, Resp("google", 400, "Email tidak ditemukan dari Google", c))
             [] info.status = "ok" /\ e # NoEmail /\ i # 0 ->
                  Return(p, GoogleResponse(c, i))
             [] info.status = "ok" /\ e # NoEmail /\ i = 0 ->
                  Goto(p, "goo_insert", c)
        /\ UNCHANGED <<users, resets, now, returnedIds, provisioned,
                       pwResetIds, okResets, serial, faults>>

GoogleAuth(p) == \E info \in OracleOutcomes : GoogleAuthOn(p, info)

(* create_document, then find_one by the new _id: the fields read back     *)
(* (_id, name, email, is_active) are never written by any handler, so the  *)
(* read-back is taken in the same step as the insert.                      *)
GoogleInsert(p) ==
    \E salt \in Salts, random \in PlaceholderSecrets :
        LET c == call[p]
            id == Len(users) + 1
        IN  /\ At(p, "goo_insert")
            /\ IF DuplicateKey(c.email)
               THEN /\ Return(p, Resp("google", 500, "Gagal memproses login Google", c))
                    /\ UNCHANGED <<users, provisioned>>
               ELSE /\ users' = InsertedUsers(c.name, c.email, Hash(random, salt))
                    /\ provisioned' = provisioned \cup {id}
                    /\ Return(p, [Resp("google", 200, "Login Google berhasil", c)
                                     EXCEPT !.user_id = id, !.session = "demo-token"])
            /\ UNCHANGED <<resets, now, returnedIds, pwResetIds, okResets, started,
                           serial, faults>>

----------------------------------------------------------------------------
(* POST /auth/forgot *)

(* "expires_in": 3600 of the response *)
EXPIRES_IN == 3600

ForgotMessage == "Jika email terdaftar, tautan reset telah dikirim."

(* faulty variant: the update_many sets used to False *)
ReviveAllUsed(email) ==
    [i \in DOMAIN resets |->
        IF resets[i].email = email
        THEN [resets[i] EXCEPT !.used = FALSE]
        ELSE resets[i]]

(* faulty variant: earlier tokens are left as they are *)
KeepAllUnused(email) == resets

(* update_many({"email": email, "used": False}, {"$set": {"used": True}}) *)
InvalidateAllUnused(email) ==
    [i \in DOMAIN resets |->
        IF resets[i].email = email /\ ~resets[i].used
        THEN [resets[i] EXCEPT !.used = TRUE]
        ELSE resets[i]]

(* secrets.token_urlsafe(32): a token no earlier call has returned *)
FreshToken == Len(resets) + 1

(* datetime.now(timezone.utc) + timedelta(hours=1) *)
Expiry(issued) == issued + TTL_HOURS

(* find_one on authuser, then update_many on passwordreset.  The lookup    *)
(* reads only whether the account exists, which no handler changes once    *)
(* it does, so it is taken in the same step as the update_many after it.   *)
ForgotInvalidate(p) ==
    \E email \in RawEmails :
        LET e == NormalizeEmail(email)
            c == [NoCall EXCEPT !.op = "forgot", !.email = e]
        IN  /\ CanStart(p)
            /\ started' = started + 1
            /\ IF FindUser(e) = 0
               THEN /\ Return(p, Resp("forgot", 200, ForgotMessage, c))
                    /\ UNCHANGED resets
               ELSE /\ resets' = InvalidateAllUnused(e)
                    /\ Goto(p, "fgt_insert", c)
            /\ UNCHANGED <<users, now, returnedIds, provisioned, pwResetIds,
                           okResets, serial, faults>>

ForgotInsert(p) ==
    LET c == call[p]
        token == FreshToken
    IN  /\ At(p, "fgt_insert")
        /\ resets' = Append(resets,
                PasswordReset(Len(resets) + 1, c.email, token, Expiry(now), FALSE))
        /\ okResets' = Append(okResets, 0)
        /\ Return(p, [Resp("forgot", 200, ForgotMessage, c)
                         EXCEPT !.token = token, !.expires_in = EXPIRES_IN])
        /\ UNCHANGED <<users, now, returnedIds, provisioned, pwResetIds, started,
                       serial, faults>>

----------------------------------------------------------------------------
(* POST /auth/reset *)

(* faulty variant: a refusal that burns the tokens of the email *)
RejectAndBurn(p, resp) ==
    /\ Return(p, resp)
    /\ resets' = [i \in DOMAIN resets |->
                     IF resets[i].email = resp.req_email
                     THEN [resets[i] EXCEPT !.used = TRUE]
                     ELSE resets[i]]
    /\ UNCHANGED users

(* raise HTTPException(...) on a path that has written nothing *)
Reject(p, resp) ==
    /\ Return(p, resp)
    /\ UNCHANGED <<users, resets>>

(* faulty variant: the reset also reactivates the account *)
SetPasswordHashAndActivate(i, new_hash) ==
    [users EXCEPT ![i].password_hash = new_hash, ![i].is_active = TRUE]

(* {"$set": {"password_hash": new_hash}} on the account with index i *)
SetPasswordHash(i, new_hash) == [users EXCEPT ![i].password_hash = new_hash]

(* faulty variant: the token is left unused *)
MarkUsedNever(i) == resets

(* {"$set": {"used": True}} on the token document with index i *)
MarkUsed(i) == [resets EXCEPT ![i].used = TRUE]

(* What a caller can present as a token: every token issued so far, and   *)
(* one value that no call has issued yet                                   *)
TokenGuesses == 1..(Len(resets) + 1)

(* faulty variant: expiry at the hour itself *)
ExpiredAtOrAfter(t, expires_at) == t >= expires_at

(* now > expires_at *)
Expired(t, expires_at) == t > expires_at

(* The checks of lines 210-228 on the token document, at clock value t *)
ResetCheck(email, token, t) ==
    LET i == FindToken(email, token)
    IN  IF i = 0 THEN "Token reset tidak valid"
        ELSE IF resets[i].used THEN "Token reset sudah digunakan"
        ELSE IF Expired(t, resets[i].expires_at) THEN "Token reset telah kedaluwarsa"
        ELSE "ok"

ResetFind(p) ==
    \E email \in RawEmails, token \in TokenGuesses, new_password \in Passwords :
        LET e == NormalizeEmail(email)
            verdict == ResetCheck(e, token, now)
            c == [NoCall EXCEPT !.op = "reset", !.email = e, !.token = token,
                                !.secret = new_password]
        IN  /\ CanStart(p)
            /\ started' = started + 1
            /\ IF verdict # "ok"
               THEN Reject(p, Resp("reset", 400, verdict, c))
               ELSE /\ Goto(p, "rst_update_user",
                            [c EXCEPT !.tid = FindToken(e, token)])
                    /\ UNCHANGED <<users, resets>>
            /\ UNCHANGED <<now, returnedIds, provisioned, pwResetIds, okResets,
                           serial, faults>>

(* find_one on authuser, then update_one by the _id it returned.  The     *)
(* lookup reads only the account's existence and _id, which no handler     *)
(* changes, so it is taken in the same step as the update_one after it.    *)
ResetUpdateUser(p) ==
    \E salt \in Salts :
        LET c == call[p]
            i == FindUser(c.email)
        IN  /\ At(p, "rst_update_user")
            /\ IF i = 0
               THEN /\ Reject(p, Resp("reset", 404, "Pengguna tidak ditemukan", c))
                    /\ UNCHANGED pwResetIds
               ELSE /\ users' = SetPasswordHash(i, Hash(c.secret, salt))
                    /\ pwResetIds' = pwResetIds \cup {users[i].id}
                    /\ Goto(p, "rst_mark_used", [c EXCEPT !.uid = users[i].id])
                    /\ UNCHANGED resets
            /\ UNCHANGED <<now, returnedIds, provisioned, okResets, started,
                           serial, faults>>

(* update_one({"_id": token_doc["_id"]}, {"$set": {"used": True}}) *)
ResetMarkUsed(p) ==
    LET c == call[p]
    IN  /\ At(p, "rst_mark_used")
        /\ resets' = MarkUsed(c.tid)
        /\ okResets' = [okResets EXCEPT ![c.tid] = @ + 1]
        /\ Return(p, Resp("reset", 200,
                          "Password berhasil direset. Silakan login kembali.", c))
        /\ UNCHANGED <<users, now, returnedIds, provisioned, pwResetIds, started,
                       serial, faults>>

----------------------------------------------------------------------------
(* The clock *)

Tick ==
    /\ Delivered
    /\ now < MaxTime
    /\ now' = now + 1
    /\ last' = NoResp
    /\ UNCHANGED <<users, resets, pc, call, returnedIds, provisioned,
                   pwResetIds, okResets, started, serial, faults>>

----------------------------------------------------------------------------
(* The handler's return or raise: the response leaves the server *)

Respond ==
    /\ ~Delivered
    /\ last' = NoResp
    /\ UNCHANGED <<users, resets, now, pc, call, returnedIds, provisioned,
                   pwResetIds, okResets, started, serial, faults>>

----------------------------------------------------------------------------
(* The store failing at the later store call of a handler: the pymongo     *)
(* exception is caught nowhere, so the request ends with status 500 and    *)
(* what the earlier store call wrote stays written.                        *)

Fault(step, c) == [step |-> step, email |-> c.email, token |-> c.token]

(* create_document("passwordreset", pr) raises *)
ForgotInsertFails(p) ==
    LET c == call[p]
    IN  /\ At(p, "fgt_insert")
        /\ Return(p, Resp("forgot", 500, "Internal Server Error", c))
        /\ faults' = faults \cup {Fault("fgt_insert", c)}
        /\ UNCHANGED <<users, resets, now, returnedIds, provisioned, pwResetIds,
                       okResets, started, serial>>

(* update_one on passwordreset raises *)
ResetMarkUsedFails(p) ==
    LET c == call[p]
    IN  /\ At(p, "rst_mark_used")
        /\ Return(p, Resp("reset", 500, "Internal Server Error", c))
        /\ faults' = faults \cup {Fault("rst_mark_used", c)}
        /\ UNCHANGED <<users, resets, now, returnedIds, provisioned, pwResetIds,
                       okResets, started, serial>>

----------------------------------------------------------------------------
(* Specifications *)

Next ==
    \/ \E p \in Procs : RegisterFind(p)
    \/ \E p \in Procs : RegisterInsert(p)
    \/ \E p \in Procs : Login(p)
    \/ \E p \in Procs : GoogleAuth(p)
    \/ \E p \in Procs : GoogleInsert(p)
    \/ \E p \in Procs : ForgotInvalidate(p)
    \/ \E p \in Procs : ForgotInsert(p)
    \/ \E p \in Procs : ResetFind(p)
    \/ \E p \in Procs : ResetUpdateUser(p)
    \/ \E p \in Procs : ResetMarkUsed(p)
    \/ Respond
    \/ Tick

(* requests overlap freely *)
OverlapInit == Init /\ ~serial

Spec == OverlapInit /\ [][Next]_vars

(* requests run one at a time *)
SeqInit == Init /\ serial

SeqSpec == SeqInit /\ [][Next]_vars

(* requests run one at a time and the store may fail *)
FaultNext ==
    \/ Next
    \/ \E p \in Procs : ForgotInsertFails(p)
    \/ \E p \in Procs : ResetMarkUsedFails(p)

FaultSpec == SeqInit /\ [][FaultNext]_vars

----------------------------------------------------------------------------
(* Claims *)

SameAccountEmail(e1, e2) == Lower(e1) = Lower(e2)

UnusedTokens(email) ==
    {i \in DOMAIN resets : resets[i].email = email /\ ~resets[i].used}

NormalEmails == {Lower(e) : e \in RawEmails}

C2_RegisterStep ==
    /\ (started' # started /\ last'.op = "register") =>
          /\ last'.status = 409
          /\ \E i \in DOMAIN users :
                SameAccountEmail(users[i].email, last'.req_email)
          /\ users' = users
          /\ resets' = resets
    /\ \A p \in Procs :
        /\ (pc[p] = "idle" /\ pc'[p] = "reg_insert") =>
              ~\E i \in DOMAIN users :
                  SameAccountEmail(users[i].email, call'[p].email)
        /\ (pc[p] = "reg_insert" /\ pc'[p] = "idle") =>
              /\ last'.op = "register"
              /\ last'.status = 200
              /\ Len(users') = Len(users) + 1
              /\ SubSeq(users', 1, Len(users)) = users
              /\ users'[Len(users')].email = Lower(call[p].email)
              /\ users'[Len(users')].is_active
              /\ users'[Len(users')].id = last'.user_id
              /\ last'.user_id \notin returnedIds
              /\ \A i \in DOMAIN users : users[i].id # last'.user_id
              /\ resets' = resets

C2_Register == [][C2_RegisterStep]_vars

(* Two registrations succeeded and a third, for an email already there,    *)
(* was answered 409.                                                       *)
C2_Witness ==
    /\ serial
    /\ last.op = "register"
    /\ last.status = 409
    /\ Cardinality(returnedIds) = 2

(* C3: a reset token authorizes at most one password change: for every     *)
(* token document at most one reset_password call succeeds.                *)
C3_SingleUse == \A i \in DOMAIN okResets : okResets[i] <= 1

(* C4: once every request has completed, at most one token of each email   *)
(* has used = false, also when forgot_password requests for that email     *)
(* overlapped.                                                             *)
C4_OneUnusedAtQuiescence ==
    Quiescent => \A e \in NormalEmails : Cardinality(UnusedTokens(e)) <= 1

(* C5: on the server that runs one request at a time, every email has at   *)
(* most one token document with used = false.                              *)
C5_AtMostOneUnused ==
    serial => \A e \in NormalEmails : Cardinality(UnusedTokens(e)) <= 1

(* A second forgot_password superseded a token that no reset had consumed. *)
C5_Witness ==
    /\ serial
    /\ Quiescent
    /\ \E i, j \in DOMAIN resets :
          /\ i # j
          /\ resets[i].email = resets[j].email
          /\ resets[i].used
          /\ okResets[i] = 0
          /\ ~resets[j].used

(* C6 as stated: after any sequence of operations, login with the email   *)
(* of an account that google_auth provisioned fails for every password a   *)
(* caller supplies.                                                        *)
C6_NeverPasswordLogin ==
    \A i \in DOMAIN users :
        users[i].id \in provisioned =>
            \A pw \in Passwords : LoginResponse(users[i].email, pw).status # 200

(* C6 as amended: as long as no reset_password call has overwritten the    *)
(* password_hash of an account that google_auth provisioned, login with    *)
(* that account's email is answered 401 for every password a caller        *)
(* supplies.                                                               *)
C6_NoLoginBeforeReset ==
    \A i \in DOMAIN users :
        (users[i].id \in provisioned /\ users[i].id \notin pwResetIds) =>
            \A pw \in Passwords : LoginResponse(users[i].email, pw).status = 401

(* A login on a provisioned account, not reset so far, has just failed.    *)
C6_Witness ==
    /\ last.op = "login"
    /\ last.status = 401
    /\ \E i \in DOMAIN users :
          /\ users[i].email = last.req_email
          /\ users[i].id \in provisioned
          /\ users[i].id \notin pwResetIds

(* C7: on the server that runs one request at a time, reset_password with  *)
(* an unused, unexpired token of an existing account succeeds (it is       *)
(* refused only with 400 and the verdict of the token checks, and never    *)
(* misses the account), and in the state it leaves: login with the new     *)
(* password succeeds (403 if the account is inactive), login with any      *)
(* other password is answered 401, the token has used = true, and a        *)
(* second reset_password with the same token is refused as used.           *)
C7_ResetThenLogin ==
    serial =>
        /\ \A p \in Procs :
              pc[p] = "rst_update_user" =>
                  \E i \in DOMAIN users : users[i].email = call[p].email
        /\ (last.op = "reset" /\ last.status # 200) =>
              /\ last.status = 400
              /\ last.detail # "ok"
              /\ last.detail = ResetCheck(last.req_email, last.req_token, now)
        /\ (last.op = "reset" /\ last.status = 200) =>
              LET e == last.req_email
                  i == FindUser(e)
                  t == FindToken(e, last.req_token)
              IN  /\ i # 0
                  /\ t # 0
                  /\ LoginResponse(e, last.req_secret).status =
                        IF users[i].is_active THEN 200 ELSE 403
                  /\ \A pw \in Passwords \ {last.req_secret} :
                        LoginResponse(e, pw).status = 401
                  /\ resets[t].used
                  /\ \A later \in now..MaxTime :
                        ResetCheck(e, last.req_token, later) =
                            "Token reset sudah digunakan"

(* A reset_password on an active account has just succeeded.               *)
C7_Witness ==
    /\ serial
    /\ last.op = "reset"
    /\ last.status = 200
    /\ \E i \in DOMAIN users : users[i].email = last.req_email /\ users[i].is_active

(* C8: on the server that runs one request at a time, in the state a       *)
(* forgot_password that issued a token leaves, every other token of that   *)
(* email has used = true and reset_password with it is refused as used,    *)
(* while reset_password with the token just issued passes the token        *)
(* checks at every time up to its expiry and finds the account.            *)
C8_Supersede ==
    (serial /\ last.op = "forgot" /\ last.token # 0) =>
        LET e == last.req_email
        IN  /\ \A i \in DOMAIN resets :
                  (resets[i].email = e /\ resets[i].token # last.token) =>
                      /\ resets[i].used
                      /\ ResetCheck(e, resets[i].token, now) =
                            "Token reset sudah digunakan"
            /\ \A t \in now..(now + TTL_HOURS) : ResetCheck(e, last.token, t) = "ok"
            /\ \E i \in DOMAIN users : users[i].email = e

(* The second of two forgot_password calls for one email has just          *)
(* answered; no reset consumed the first token.                            *)
C8_Witness ==
    /\ serial
    /\ last.op = "forgot"
    /\ last.token = 2
    /\ resets[1].email = resets[2].email
    /\ okResets[1] = 0

(* C9: a step in which reset_password answers with a failure leaves both   *)
(* collections as they were (no password_hash, used flag or expires_at     *)
(* changes), and the failing call is not one that has already overwritten  *)
(* a password_hash.                                                        *)
C9_FailedResetStep ==
    (last'.op = "reset" /\ last'.status # 200) =>
        /\ users' = users
        /\ resets' = resets
        /\ \A p \in Procs : pc[p] # "rst_mark_used" \/ pc'[p] = "rst_mark_used"

C9_FailedResetFrame == [][C9_FailedResetStep]_vars

(* reset_password has just refused an expired token.                       *)
C9_Witness ==
    /\ last.op = "reset"
    /\ last.status = 400
    /\ last.detail = "Token reset telah kedaluwarsa"

(* C10: a token's expires_at is its issuance time plus one hour and never  *)
(* changes, and no token document is removed; reset_password on an unused  *)
(* token is refused as expired exactly when the clock is strictly past     *)
(* expires_at; no step other than a supersession or a successful reset     *)
(* sets used, and the passing of time changes no document.                 *)
C10_ExpiryStep ==
    /\ Len(resets') >= Len(resets)
    /\ \A i \in DOMAIN resets :
          /\ resets'[i].expires_at = resets[i].expires_at
          /\ resets'[i].token = resets[i].token
          /\ resets'[i].email = resets[i].email
    /\ Len(resets') > Len(resets) =>
          /\ Len(resets') = Len(resets) + 1
          /\ resets'[Len(resets')].expires_at = now + 1
          /\ ~resets'[Len(resets')].used
    /\ (started' # started /\ last'.op = "reset") =>
          LET i == FindToken(last'.req_email, last'.req_token)
          IN  /\ (i # 0 /\ ~resets[i].used) =>
                    /\ last'.detail = "Token reset telah kedaluwarsa"
                    /\ now > resets[i].expires_at
              /\ last'.detail = "Token reset telah kedaluwarsa" =>
                    /\ i # 0
                    /\ ~resets[i].used
                    /\ now > resets[i].expires_at
    /\ \A p \in Procs :
          (pc[p] = "idle" /\ pc'[p] = "rst_update_user") =>
              LET i == FindToken(call'[p].email, call'[p].token)
              IN  /\ i # 0
                  /\ ~resets[i].used
                  /\ now <= resets[i].expires_at
    /\ \A i \in DOMAIN resets :
          (~resets[i].used /\ resets'[i].used) =>
              \/ \E p \in Procs : /\ pc[p] = "idle"
                                  /\ pc'[p] = "fgt_insert"
                                  /\ call'[p].email = resets[i].email
              \/ /\ last'.op = "reset"
                 /\ last'.status = 200
                 /\ FindToken(last'.req_email, last'.req_token) = i
    /\ now' # now => (resets' = resets /\ users' = users)

C10_Expiry == [][C10_ExpiryStep]_vars

(* reset_password has accepted a token at the very hour it expires.        *)
C10_Witness ==
    \E p \in Procs :
        /\ pc[p] = "rst_update_user"
        /\ now > 0
        /\ resets[call[p].tid].expires_at = now

(* What a response tells its caller: everything but the echo of the        *)
(* caller's own request.                                                   *)
Body(r) ==
    [status |-> r.status, detail |-> r.detail, user_id |-> r.user_id,
     token |-> r.token, expires_in |-> r.expires_in, session |-> r.session]

HasAccount(e) == \E i \in DOMAIN users : users[i].email = Lower(e)

(* the credential fails: no account under the email, or an account whose   *)
(* password_hash the password does not verify against                      *)
FailedCredential(e, pw) ==
    \A i \in DOMAIN users :
        users[i].email = Lower(e) => ~Verify(pw, users[i].password_hash)

(* C11: a login with a wrong password on an existing account, active or    *)
(* not, is answered exactly as a login on an email that has no account:    *)
(* status 401 with the one message and nothing else, so a failed login     *)
(* does not tell whether the account exists.                               *)
C11_NoEnumeration ==
    /\ \A e \in RawEmails, pw \in Passwords :
          FailedCredential(e, pw) =>
              Body(LoginResponse(e, pw))
                  = Body(Resp("login", 401, "Email atau kata sandi salah", NoCall))
    /\ \A e1 \in RawEmails, e2 \in RawEmails, pw1 \in Passwords, pw2 \in Passwords :
          (HasAccount(e1) /\ FailedCredential(e1, pw1) /\ ~HasAccount(e2)) =>
              Body(LoginResponse(e1, pw1)) = Body(LoginResponse(e2, pw2))
    /\ (last.op = "login" /\ FailedCredential(last.req_email, last.req_secret)) =>
          /\ last.status = 401
          /\ last.detail = "Email atau kata sandi salah"
          /\ last.user_id = 0
          /\ last.session = ""

(* A login with a wrong password on the deactivated account was answered   *)
(* 401 while another email has no account.                                 *)
C11_Witness ==
    /\ last.op = "login"
    /\ last.status = 401
    /\ \E i \in DOMAIN users :
          /\ users[i].email = last.req_email
          /\ ~users[i].is_active
          /\ ~Verify(last.req_secret, users[i].password_hash)
    /\ \E e \in RawEmails : ~HasAccount(e)

(* C12: for a deactivated account, login with the correct password and     *)
(* google_auth with an accepted credential for its email both fail with    *)
(* 403; login answers 403 only when the account exists, is deactivated     *)
(* and the password verifies.                                              *)
C12_InactiveForbidden ==
    /\ \A i \in DOMAIN users :
          ~users[i].is_active =>
              /\ \A e \in RawEmails, pw \in Passwords :
                    (Lower(e) = users[i].email
                        /\ Verify(pw, users[i].password_hash)) =>
                        /\ LoginResponse(e, pw).status = 403
                        /\ LoginResponse(e, pw).session = ""
              /\ GoogleResponse(NoCall, i).status = 403
              /\ GoogleResponse(NoCall, i).session = ""
    /\ \A e \in RawEmails, pw \in Passwords :
          LoginResponse(e, pw).status = 403 =>
              \E i \in DOMAIN users :
                  /\ users[i].email = Lower(e)
                  /\ ~users[i].is_active
                  /\ Verify(pw, users[i].password_hash)
    /\ (last.op = "login" /\ last.status = 403) =>
          \E i \in DOMAIN users :
              /\ users[i].email = last.req_email
              /\ ~users[i].is_active
              /\ Verify(last.req_secret, users[i].password_hash)
    /\ (last.op = "google" /\ last.status \in {200, 403}) =>
          \E i \in DOMAIN users :
              /\ users[i].email = last.req_email
              /\ users[i].is_active = (last.status = 200)

(* google_auth with an accepted credential for the deactivated account's   *)
(* email was answered 403, and login with its password would be too.       *)
C12_Witness ==
    /\ last.op = "google"
    /\ last.status = 403
    /\ \E i \in DOMAIN users, pw \in Passwords :
          /\ users[i].email = last.req_email
          /\ ~users[i].is_active
          /\ Verify(pw, users[i].password_hash)
          /\ LoginResponse(users[i].email, pw).status = 403

(* C13: forgot_password on an email with no account answers with the same  *)
(* status and message as on an email with one, carries no token and        *)
(* changes neither collection; on an email with an account it goes on to   *)
(* issue a token and returns it; it never answers with an error.           *)
C13_ForgotStep ==
    /\ last'.op = "forgot" =>
          /\ last'.status = 200
          /\ last'.detail = ForgotMessage
    /\ (started' # started /\ last'.op = "forgot") =>
          /\ ~HasAccount(last'.req_email)
          /\ last'.token = 0
          /\ last'.expires_in = 0
          /\ users' = users
          /\ resets' = resets
    /\ \A p \in Procs :
        /\ (pc[p] = "idle" /\ pc'[p] = "fgt_insert") =>
              /\ HasAccount(call'[p].email)
              /\ users' = users
              /\ Len(resets') = Len(resets)
        /\ (pc[p] = "fgt_insert" /\ pc'[p] = "idle") =>
              /\ last'.op = "forgot"
              /\ HasAccount(call[p].email)
              /\ last'.req_email = call[p].email
              /\ last'.token # 0
              /\ last'.expires_in = EXPIRES_IN
              /\ Len(resets') = Len(resets) + 1
              /\ resets'[Len(resets')].token = last'.token
              /\ resets'[Len(resets')].email = call[p].email
              /\ ~resets'[Len(resets')].used
              /\ users' = users

C13_ForgotSilent == [][C13_ForgotStep]_vars

(* forgot_password on an email with no account was answered without a      *)
(* token, after a call on an email with an account was given one.          *)
C13_Witness ==
    /\ last.op = "forgot"
    /\ last.status = 200
    /\ last.token = 0
    /\ ~HasAccount(last.req_email)
    /\ resets # <<>>

(* C14: google_auth answers 401 when the oracle rejects the credential     *)
(* and 400 when the oracle's answer carries no email, creating no account  *)
(* in either case; an accepted credential for an email with no account     *)
(* creates exactly one account, active, under that email; one for an       *)
(* email that has an account creates none.                                 *)
C14_GoogleStep ==
    /\ \A p \in Procs, info \in OracleOutcomes :
          GoogleAuthOn(p, info) =>
              /\ users' = users
              /\ resets' = resets
              /\ info.status = "non200" =>
                    /\ pc'[p] = "idle"
                    /\ last'.op = "google"
                    /\ last'.status = 401
              /\ (info.status = "ok" /\ info.email = NoEmail) =>
                    /\ pc'[p] = "idle"
                    /\ last'.op = "google"
                    /\ last'.status = 400
              /\ (info.status = "ok" /\ info.email # NoEmail
                    /\ HasAccount(info.email)) =>
                    /\ pc'[p] = "idle"
                    /\ last'.op = "google"
                    /\ last'.status \in {200, 403}
              /\ (info.status = "ok" /\ info.email # NoEmail
                    /\ ~HasAccount(info.email)) =>
                    /\ pc'[p] = "goo_insert"
                    /\ call'[p].email = Lower(info.email)
    /\ \A p \in Procs :
          (pc[p] = "goo_insert" /\ pc'[p] = "idle") =>
              /\ last'.op = "google"
              /\ last'.status = 200
              /\ ~HasAccount(call[p].email)
              /\ Len(users') = Len(users) + 1
              /\ SubSeq(users', 1, Len(users)) = users
              /\ users'[Len(users')].email = call[p].email
              /\ users'[Len(users')].is_active
              /\ users'[Len(users')].id = last'.user_id
              /\ resets' = resets
    /\ (last'.op = "google" /\ last'.status \in {400, 401, 403, 500}) =>
          users' = users

C14_Google == [][C14_GoogleStep]_vars

(* google_auth has created the one account of an email and answered 200,   *)
(* with another account already in the collection.                         *)
C14_Witness ==
    /\ serial
    /\ last.op = "google"
    /\ last.status = 200
    /\ last.user_id \in provisioned
    /\ Len(users) >= 2
    /\ Cardinality({i \in DOMAIN users : users[i].email = last.req_email}) = 1

(* C15: when the oracle does not answer within the timeout, google_auth    *)
(* fails with a timeout- or unauthorized-class status, not an internal     *)
(* error, and creates no account.                                          *)
C15_TimeoutStep ==
    \A p \in Procs, info \in OracleOutcomes :
        (GoogleAuthOn(p, info) /\ info.status = "timeout") =>
            /\ last'.op = "google"
            /\ last'.status \in {401, 408, 504}
            /\ users' = users

C15_TimeoutNotInternal == [][C15_TimeoutStep]_vars

(* C16: a handler that fails at its later store call leaves a state from   *)
(* which the request can be retried.  When forgot_password fails at the    *)
(* insert, after invalidating, no token of the email is unused and the     *)
(* account is still there, so that a retried forgot_password issues a      *)
(* token, which reset_password accepts until it expires.  When             *)
(* reset_password fails after overwriting password_hash, before marking    *)
(* the token used, the token is still there and unused, so that a retry    *)
(* with it is accepted until the token expires; a reset_password that      *)
(* answers 200 leaves its token used.                                      *)
C16_RetryStep ==
    \A p \in Procs :
        /\ (pc[p] = "fgt_insert" /\ pc'[p] = "idle" /\ last'.status = 500) =>
              /\ users' = users
              /\ resets' = resets
              /\ UnusedTokens(call[p].email) = {}
              /\ HasAccount(call[p].email)
        /\ (pc[p] = "fgt_insert" /\ pc'[p] = "idle" /\ last'.status = 200) =>
              /\ last'.token # 0
              /\ HasAccount(last'.req_email)
              /\ \A j \in DOMAIN resets : resets[j].token # last'.token
              /\ resets'[Len(resets')].email = last'.req_email
              /\ resets'[Len(resets')].token = last'.token
              /\ ~resets'[Len(resets')].used
              /\ \A t \in now..Expiry(now) :
                    ~Expired(t, resets'[Len(resets')].expires_at)
        /\ (pc[p] = "rst_mark_used" /\ pc'[p] = "idle" /\ last'.status = 500) =>
              /\ users' = users
              /\ resets' = resets
              /\ HasAccount(call[p].email)
              /\ \A i \in DOMAIN users :
                    users[i].email = call[p].email =>
                        Verify(call[p].secret, users[i].password_hash)
              /\ FindToken(call[p].email, call[p].token) = call[p].tid
              /\ ~resets[call[p].tid].used
              /\ \A t \in 0..resets[call[p].tid].expires_at :
                    ResetCheck(call[p].email, call[p].token, t) = "ok"
        /\ (pc[p] = "rst_mark_used" /\ pc'[p] = "idle" /\ last'.status = 200) =>
              /\ resets'[call[p].tid].used
              /\ resets'[call[p].tid].token = call[p].token
              /\ UnusedTokens(call[p].email)' = {}

C16_Retryable == [][C16_RetryStep]_vars

(* reset_password failed after overwriting password_hash, and the retry    *)
(* with the same token has answered 200 and left the token used.           *)
C16_Witness ==
    /\ last.op = "reset"
    /\ last.status = 200
    /\ Fault("rst_mark_used",
             [email |-> last.req_email, token |-> last.req_token]) \in faults
    /\ okResets[FindToken(last.req_email, last.req_token)] = 1
    /\ resets[FindToken(last.req_email, last.req_token)].used

(* forgot_password failed at the insert, was retried, and reset_password   *)
(* has accepted the token the retry issued.                                *)
C16_ForgotRetried ==
    /\ last.op = "reset"
    /\ last.status = 200
    /\ Fault("fgt_insert", [email |-> last.req_email, token |-> 0]) \in faults

(* C17: a token is bound to the email it was issued for.  reset_password   *)
(* with an email and a token that no one token document carries together   *)
(* (a token issued for another email) is refused with 400 "Token reset     *)
(* tidak valid" and changes nothing; an accepted reset_password            *)
(* overwrites the password_hash of the account under the token's email     *)
(* and sets used on its own token document, and changes no other field,    *)
(* account or token document.                                              *)
C17_BoundStep ==
    /\ (started' # started /\ last'.op = "reset"
          /\ ~\E i \in DOMAIN resets :
                /\ resets[i].email = last'.req_email
                /\ resets[i].token = last'.req_token) =>
          /\ last'.status = 400
          /\ last'.detail = "Token reset tidak valid"
          /\ users' = users
          /\ resets' = resets
    /\ \A p \in Procs :
        /\ (pc[p] = "idle" /\ pc'[p] = "rst_update_user") =>
              /\ call'[p].tid \in DOMAIN resets
              /\ resets[call'[p].tid].email = call'[p].email
              /\ resets[call'[p].tid].token = call'[p].token
              /\ users' = users
              /\ resets' = resets
        /\ (pc[p] = "rst_update_user" /\ pc'[p] = "rst_mark_used") =>
              /\ resets' = resets
              /\ DOMAIN users' = DOMAIN users
              /\ \E j \in DOMAIN users :
                    users[j].email = resets[call[p].tid].email
              /\ \A j \in DOMAIN users :
                    IF users[j].email = resets[call[p].tid].email
                    THEN /\ users'[j] = [users[j] EXCEPT
                                !.password_hash = users'[j].password_hash]
                         /\ Verify(call[p].secret, users'[j].password_hash)
                    ELSE users'[j] = users[j]
        /\ (pc[p] = "rst_mark_used" /\ pc'[p] = "idle") =>
              /\ last'.op = "reset"
              /\ last'.status = 200
              /\ users' = users
              /\ resets' = [resets EXCEPT ![call[p].tid].used = TRUE]

C17_TokenBound == [][C17_BoundStep]_vars

(* reset_password for an account was refused as invalid with a token       *)
(* that was issued for another account.                                    *)
C17_Witness ==
    /\ last.op = "reset"
    /\ last.status = 400
    /\ last.detail = "Token reset tidak valid"
    /\ HasAccount(last.req_email)
    /\ \E i \in DOMAIN resets :
          /\ resets[i].token = last.req_token
          /\ resets[i].email # last.req_email
          /\ ~resets[i].used

Refused == {"Token reset sudah digunakan", "Token reset telah kedaluwarsa"}

(* C18: token documents are never deleted or rewritten, but for used,      *)
(* which goes from false to true only; the clock never goes back; so a     *)
(* token that reset_password refuses as used or expired is refused as      *)
(* used or expired from then on.                                           *)
C18_MonotoneStep ==
    /\ Len(resets') >= Len(resets)
    /\ now' >= now
    /\ \A i \in DOMAIN resets :
          /\ resets'[i] = [resets[i] EXCEPT !.used = resets'[i].used]
          /\ resets[i].used => resets'[i].used
    /\ \A e \in NormalEmails, token \in 1..Len(resets) :
          ResetCheck(e, token, now) \in Refused =>
              ResetCheck(e, token, now)' \in Refused

C18_RefusedForGood == [][C18_MonotoneStep]_vars

(* A token that a reset_password consumed was presented again at a later   *)
(* hour and refused as used.                                               *)
C18_Witness ==
    /\ last.op = "reset"
    /\ last.status = 400
    /\ last.detail = "Token reset sudah digunakan"
    /\ okResets[FindToken(last.req_email, last.req_token)] = 1
    /\ now > 0

(* C19: no handler changes the id, name, email or is_active of an account  *)
(* once it is created, or removes an account.  forgot_password issues a    *)
(* token for a deactivated account as for any other and reset_password     *)
(* with it answers 200 and replaces the hash, yet login with the new       *)
(* password is still answered 403.                                         *)
C19_FrozenStep ==
    /\ Len(users') >= Len(users)
    /\ \A i \in DOMAIN users :
          users'[i] = [users[i] EXCEPT !.password_hash = users'[i].password_hash]
    /\ (started' # started /\ last'.op = "forgot") =>
          ~\E i \in DOMAIN users :
              users[i].email = last'.req_email /\ ~users[i].is_active
    /\ \A p \in Procs :
          (pc[p] \in {"rst_update_user", "rst_mark_used"} /\ pc'[p] = "idle") =>
              /\ last'.op = "reset"
              /\ last'.status = 200
    /\ (last.op = "reset" /\ last.status = 200) =>
          \A i \in DOMAIN users :
              (users[i].email = last.req_email /\ ~users[i].is_active) =>
                  /\ Verify(last.req_secret, users[i].password_hash)
                  /\ LoginResponse(last.req_email, last.req_secret).status = 403

C19_Frozen == [][C19_FrozenStep]_vars

(* The deactivated account was given a token, reset_password with it       *)
(* replaced the hash, and login with the new password was answered 403.    *)
C19_Witness ==
    /\ serial
    /\ last.op = "login"
    /\ last.status = 403
    /\ \E i \in DOMAIN users :
          /\ users[i].email = last.req_email
          /\ ~users[i].is_active
          /\ users[i].id \in pwResetIds
          /\ users[i].password_hash # Dormant.password_hash
    /\ \E t \in DOMAIN resets :
          /\ resets[t].email = last.req_email
          /\ okResets[t] = 1

(* C20: the email of every token document is the email of an account, and  *)
(* so is the email of every forgot_password or reset_password call past    *)
(* its first store step; reset_password never answers 404.                 *)
C20_TokensHaveAccounts ==
    /\ \A i \in DOMAIN resets : HasAccount(resets[i].email)
    /\ \A p \in Procs :
          pc[p] \in {"fgt_insert", "rst_update_user", "rst_mark_used"} =>
              FindUser(call[p].email) # 0
    /\ last.status # 404

(* A reset_password call has passed the token checks and is about to look  *)
(* up the account, which is there among several.                           *)
C20_Witness ==
    \E p \in Procs :
        /\ pc[p] = "rst_update_user"
        /\ Len(users) >= 2
        /\ HasAccount(call[p].email)
        /\ resets[call[p].tid].email = call[p].email

====
